---- MODULE Spec2Model ----
(***************************************************************************)
(* Model of wasmi's src/scoped_instrumenter.rs: the per-instruction        *)
(* execution profiler.  A ScopedInstrumenter is created when an            *)
(* instruction starts and, when dropped, appends one CSV row to the log    *)
(* of the instruction's kind through the process-wide map                  *)
(* INSTRUMENTATION_FILES, which is protected by a std::sync::Mutex.        *)
(***************************************************************************)
EXTENDS Integers, Sequences, FiniteSets, TLC

(***************************************************************************)
(* Bounds of the model.                                                    *)
(***************************************************************************)
NumThreads  == 2   \* interpreter threads
MaxOps      == 2   \* instructions dispatched over the whole history
MaxRestarts == 1   \* process restarts over the whole history
NearCap     == 1   \* logs of earlier runs hold cap - NearCap .. cap rows

Threads == 1 .. NumThreads

(***************************************************************************)
(* Program constants.                                                      *)
(***************************************************************************)
TARGET_ENTRY_COUNT == 10000

\* entry_count is a usize.  The language guarantees at least 16 bits; the
\* model uses that width (wider targets wrap to a larger value still).
USIZE_BITS == 16

USIZE_MOD == 2 ^ USIZE_BITS

\* Option::None for a thread, a handle and a sink, and the absent file.
NoThread == 0
NoHandle == [some |-> FALSE, instruction |-> "", properties |-> << >>]
NoSink   == [present |-> FALSE, entry_count |-> 0]
NotFound == [exists |-> FALSE, prior |-> 0, tail |-> << >>]

(***************************************************************************)
(* Classification: ScopedInstrumenter::new.                                *)
(***************************************************************************)
\* The first match of ScopedInstrumenter::new: the tags that return None.
DenyList == {
    "Instruction::F32Load", "Instruction::F64Load", "Instruction::F32Store", 
    "Instruction::F64Store", "Instruction::F32Const", "Instruction::F64Const", 
    "Instruction::F32Eq", "Instruction::F32Ne", "Instruction::F32Lt", 
    "Instruction::F32Gt", "Instruction::F32Le", "Instruction::F32Ge", 
    "Instruction::F64Eq", "Instruction::F64Ne", "Instruction::F64Lt", 
    "Instruction::F64Gt", "Instruction::F64Le", "Instruction::F64Ge", 
    "Instruction::F32Abs", "Instruction::F32Neg", "Instruction::F32Ceil", 
    "Instruction::F32Floor", "Instruction::F32Trunc", 
    "Instruction::F32Nearest", "Instruction::F32Sqrt", "Instruction::F32Add", 
    "Instruction::F32Sub", "Instruction::F32Mul", "Instruction::F32Div", 
    "Instruction::F32Min", "Instruction::F32Max", "Instruction::F32Copysign", 
    "Instruction::F64Abs", "Instruction::F64Neg", "Instruction::F64Ceil", 
    "Instruction::F64Floor", "Instruction::F64Trunc", 
    "Instruction::F64Nearest", "Instruction::F64Sqrt", "Instruction::F64Add", 
    "Instruction::F64Sub", "Instruction::F64Mul", "Instruction::F64Div", 
    "Instruction::F64Min", "Instruction::F64Max", "Instruction::F64Copysign", 
    "Instruction::I32TruncSF32", "Instruction::I32TruncUF32", 
    "Instruction::I32TruncSF64", "Instruction::I32TruncUF64", 
    "Instruction::I64TruncSF32", "Instruction::I64TruncUF32", 
    "Instruction::I64TruncSF64", "Instruction::I64TruncUF64", 
    "Instruction::F32ConvertSI32", "Instruction::F32ConvertUI32", 
    "Instruction::F32ConvertSI64", "Instruction::F32ConvertUI64", 
    "Instruction::F32DemoteF64", "Instruction::F64ConvertSI32", 
    "Instruction::F64ConvertUI32", "Instruction::F64ConvertSI64", 
    "Instruction::F64ConvertUI64", "Instruction::F64PromoteF32", 
    "Instruction::I32ReinterpretF32", "Instruction::I64ReinterpretF64", 
    "Instruction::F32ReinterpretI32", "Instruction::F64ReinterpretI64"
  }

\* The second match of ScopedInstrumenter::new: tag -> instruction_str.
InstructionStr ==
       "Instruction::Unreachable" :> "Unreachable"
    @@ "Instruction::GetLocal" :> "GetLocal"
    @@ "Instruction::SetLocal" :> "SetLocal"
    @@ "Instruction::TeeLocal" :> "TeeLocal"
    @@ "Instruction::Br" :> "Br"
    @@ "Instruction::BrIfEqz" :> "BrIfEqz"
    @@ "Instruction::BrIfNez" :> "BrIfNez"
    @@ "Instruction::BrTable" :> "BrTable"
    @@ "Instruction::Return" :> "Return"
    @@ "Instruction::Call" :> "Call"
    @@ "Instruction::CallIndirect" :> "CallIndirect"
    @@ "Instruction::Drop" :> "Drop"
    @@ "Instruction::Select" :> "Select"
    @@ "Instruction::GetGlobal" :> "GetGlobal"
    @@ "Instruction::SetGlobal" :> "SetGlobal"
    @@ "Instruction::I32Load" :> "I32Load"
    @@ "Instruction::I64Load" :> "I64Load"
    @@ "Instruction::F32Load" :> "F32Load"
    @@ "Instruction::F64Load" :> "F64Load"
    @@ "Instruction::I32Load8S" :> "I32Load8S"
    @@ "Instruction::I32Load8U" :> "I32Load8U"
    @@ "Instruction::I32Load16S" :> "I32Load16S"
    @@ "Instruction::I32Load16U" :> "I32Load16U"
    @@ "Instruction::I64Load8S" :> "I64Load8S"
    @@ "Instruction::I64Load8U" :> "I64Load8U"
    @@ "Instruction::I64Load16S" :> "I64Load16S"
    @@ "Instruction::I64Load16U" :> "I64Load16U"
    @@ "Instruction::I64Load32S" :> "I64Load32S"
    @@ "Instruction::I64Load32U" :> "I64Load32U"
    @@ "Instruction::I32Store" :> "I32Store"
    @@ "Instruction::I64Store" :> "I64Store"
    @@ "Instruction::F32Store" :> "F32Store"
    @@ "Instruction::F64Store" :> "F64Store"
    @@ "Instruction::I32Store8" :> "I32Store8"
    @@ "Instruction::I32Store16" :> "I32Store16"
    @@ "Instruction::I64Store8" :> "I64Store8"
    @@ "Instruction::I64Store16" :> "I64Store16"
    @@ "Instruction::I64Store32" :> "I64Store32"
    @@ "Instruction::CurrentMemory" :> "CurrentMemory"
    @@ "Instruction::GrowMemory" :> "GrowMemory"
    @@ "Instruction::I32Const" :> "I32Const"
    @@ "Instruction::I64Const" :> "I64Const"
    @@ "Instruction::F32Const" :> "F32Const"
    @@ "Instruction::F64Const" :> "F64Const"
    @@ "Instruction::I32Eqz" :> "I32Eqz"
    @@ "Instruction::I32Eq" :> "I32Eq"
    @@ "Instruction::I32Ne" :> "I32Ne"
    @@ "Instruction::I32LtS" :> "I32LtS"
    @@ "Instruction::I32LtU" :> "I32LtU"
    @@ "Instruction::I32GtS" :> "I32GtS"
    @@ "Instruction::I32GtU" :> "I32GtU"
    @@ "Instruction::I32LeS" :> "I32LeS"
    @@ "Instruction::I32LeU" :> "I32LeU"
    @@ "Instruction::I32GeS" :> "I32GeS"
    @@ "Instruction::I32GeU" :> "I32GeU"
    @@ "Instruction::I64Eqz" :> "I64Eqz"
    @@ "Instruction::I64Eq" :> "I64Eq"
    @@ "Instruction::I64Ne" :> "I64Ne"
    @@ "Instruction::I64LtS" :> "I64LtS"
    @@ "Instruction::I64LtU" :> "I64LtU"
    @@ "Instruction::I64GtS" :> "I64GtS"
    @@ "Instruction::I64GtU" :> "I64GtU"
    @@ "Instruction::I64LeS" :> "I64LeS"
    @@ "Instruction::I64LeU" :> "I64LeU"
    @@ "Instruction::I64GeS" :> "I64GeS"
    @@ "Instruction::I64GeU" :> "I64GeU"
    @@ "Instruction::F32Eq" :> "F32Eq"
    @@ "Instruction::F32Ne" :> "F32Ne"
    @@ "Instruction::F32Lt" :> "F32Lt"
    @@ "Instruction::F32Gt" :> "F32Gt"
    @@ "Instruction::F32Le" :> "F32Le"
    @@ "Instruction::F32Ge" :> "F32Ge"
    @@ "Instruction::F64Eq" :> "F64Eq"
    @@ "Instruction::F64Ne" :> "F64Ne"
    @@ "Instruction::F64Lt" :> "F64Lt"
    @@ "Instruction::F64Gt" :> "F64Gt"
    @@ "Instruction::F64Le" :> "F64Le"
    @@ "Instruction::F64Ge" :> "F64Ge"
    @@ "Instruction::I32Clz" :> "I32Clz"
    @@ "Instruction::I32Ctz" :> "I32Ctz"
    @@ "Instruction::I32Popcnt" :> "I32Popcnt"
    @@ "Instruction::I32Add" :> "I32Add"
    @@ "Instruction::I32Sub" :> "I32Sub"
    @@ "Instruction::I32Mul" :> "I32Mul"
    @@ "Instruction::I32DivS" :> "I32DivS"
    @@ "Instruction::I32DivU" :> "I32DivU"
    @@ "Instruction::I32RemS" :> "I32RemS"
    @@ "Instruction::I32RemU" :> "I32RemU"
    @@ "Instruction::I32And" :> "I32And"
    @@ "Instruction::I32Or" :> "I32Or"
    @@ "Instruction::I32Xor" :> "I32Xor"
    @@ "Instruction::I32Shl" :> "I32Shl"
    @@ "Instruction::I32ShrS" :> "I32ShrS"
    @@ "Instruction::I32ShrU" :> "I32ShrU"
    @@ "Instruction::I32Rotl" :> "I32Rotl"
    @@ "Instruction::I32Rotr" :> "I32Rotr"
    @@ "Instruction::I64Clz" :> "I64Clz"
    @@ "Instruction::I64Ctz" :> "I64Ctz"
    @@ "Instruction::I64Popcnt" :> "I64Popcnt"
    @@ "Instruction::I64Add" :> "I64Add"
    @@ "Instruction::I64Sub" :> "I64Sub"
    @@ "Instruction::I64Mul" :> "I64Mul"
    @@ "Instruction::I64DivS" :> "I64DivS"
    @@ "Instruction::I64DivU" :> "I64DivU"
    @@ "Instruction::I64RemS" :> "I64RemS"
    @@ "Instruction::I64RemU" :> "I64RemU"
    @@ "Instruction::I64And" :> "I64And"
    @@ "Instruction::I64Or" :> "I64Or"
    @@ "Instruction::I64Xor" :> "I64Xor"
    @@ "Instruction::I64Shl" :> "I64Shl"
    @@ "Instruction::I64ShrS" :> "I64ShrS"
    @@ "Instruction::I64ShrU" :> "I64ShrU"
    @@ "Instruction::I64Rotl" :> "I64Rotl"
    @@ "Instruction::I64Rotr" :> "I64Rotr"
    @@ "Instruction::F32Abs" :> "F32Abs"
    @@ "Instruction::F32Neg" :> "F32Neg"
    @@ "Instruction::F32Ceil" :> "F32Ceil"
    @@ "Instruction::F32Floor" :> "F32Floor"
    @@ "Instruction::F32Trunc" :> "F32Trunc"
    @@ "Instruction::F32Nearest" :> "F32Nearest"
    @@ "Instruction::F32Sqrt" :> "F32Sqrt"
    @@ "Instruction::F32Add" :> "F32Add"
    @@ "Instruction::F32Sub" :> "F32Sub"
    @@ "Instruction::F32Mul" :> "F32Mul"
    @@ "Instruction::F32Div" :> "F32Div"
    @@ "Instruction::F32Min" :> "F32Min"
    @@ "Instruction::F32Max" :> "F32Max"
    @@ "Instruction::F32Copysign" :> "F32Copysign"
    @@ "Instruction::F64Abs" :> "F64Abs"
    @@ "Instruction::F64Neg" :> "F64Neg"
    @@ "Instruction::F64Ceil" :> "F64Ceil"
    @@ "Instruction::F64Floor" :> "F64Floor"
    @@ "Instruction::F64Trunc" :> "F64Trunc"
    @@ "Instruction::F64Nearest" :> "F64Nearest"
    @@ "Instruction::F64Sqrt" :> "F64Sqrt"
    @@ "Instruction::F64Add" :> "F64Add"
    @@ "Instruction::F64Sub" :> "F64Sub"
    @@ "Instruction::F64Mul" :> "F64Mul"
    @@ "Instruction::F64Div" :> "F64Div"
    @@ "Instruction::F64Min" :> "F64Min"
    @@ "Instruction::F64Max" :> "F64Max"
    @@ "Instruction::F64Copysign" :> "F64Copysign"
    @@ "Instruction::I32WrapI64" :> "I32WrapI64"
    @@ "Instruction::I32TruncSF32" :> "I32TruncSF32"
    @@ "Instruction::I32TruncUF32" :> "I32TruncUF32"
    @@ "Instruction::I32TruncSF64" :> "I32TruncSF64"
    @@ "Instruction::I32TruncUF64" :> "I32TruncUF64"
    @@ "Instruction::I64ExtendSI32" :> "I64ExtendSI32"
    @@ "Instruction::I64ExtendUI32" :> "I64ExtendUI32"
    @@ "Instruction::I64TruncSF32" :> "I64TruncSF32"
    @@ "Instruction::I64TruncUF32" :> "I64TruncUF32"
    @@ "Instruction::I64TruncSF64" :> "I64TruncSF64"
    @@ "Instruction::I64TruncUF64" :> "I64TruncUF64"
    @@ "Instruction::F32ConvertSI32" :> "F32ConvertSI32"
    @@ "Instruction::F32ConvertUI32" :> "F32ConvertUI32"
    @@ "Instruction::F32ConvertSI64" :> "F32ConvertSI64"
    @@ "Instruction::F32ConvertUI64" :> "F32ConvertUI64"
    @@ "Instruction::F32DemoteF64" :> "F32DemoteF64"
    @@ "Instruction::F64ConvertSI32" :> "F64ConvertSI32"
    @@ "Instruction::F64ConvertUI32" :> "F64ConvertUI32"
    @@ "Instruction::F64ConvertSI64" :> "F64ConvertSI64"
    @@ "Instruction::F64ConvertUI64" :> "F64ConvertUI64"
    @@ "Instruction::F64PromoteF32" :> "F64PromoteF32"
    @@ "Instruction::I32ReinterpretF32" :> "I32ReinterpretF32"
    @@ "Instruction::I64ReinterpretF64" :> "I64ReinterpretF64"
    @@ "Instruction::F32ReinterpretI32" :> "F32ReinterpretI32"
    @@ "Instruction::F64ReinterpretI64" :> "F64ReinterpretI64"

DigitStr(d) ==
  CASE d = 0 -> "0" [] d = 1 -> "1" [] d = 2 -> "2" [] d = 3 -> "3"
    [] d = 4 -> "4" [] d = 5 -> "5" [] d = 6 -> "6" [] d = 7 -> "7"
    [] d = 8 -> "8" [] d = 9 -> "9"

\* usize::to_string / the {} formatting of an unsigned integer.
RECURSIVE UsizeToString(_)
UsizeToString(n) ==
  IF n < 10 THEN DigitStr(n) ELSE UsizeToString(n \div 10) \o DigitStr(n % 10)

\* Keep::count(): the number of values kept across the control transfer.
KeepCount(keep) == IF keep = "Single" THEN 1 ELSE 0

\* Variant: Return pushes no property.
PropertyTags_NoReturn ==
  { "Instruction::Br", "Instruction::BrIfEqz", "Instruction::BrIfNez" }

\* The third match of ScopedInstrumenter::new: the tags that carry a
\* drop_keep and push its keep count.
PropertyTags ==
  { "Instruction::Br", "Instruction::BrIfEqz", "Instruction::BrIfNez",
    "Instruction::Return" }

\* Variant: F64PromoteF32 is missing from the excluded tags.
NewScopedInstrumenter_PromoteNotExcluded(instruction) ==
  IF instruction.tag \in DenyList \ { "Instruction::F64PromoteF32" }
    THEN NoHandle
    ELSE [ some        |-> TRUE,
           instruction |-> InstructionStr[instruction.tag],
           properties  |-> IF instruction.tag \in PropertyTags
                             THEN << UsizeToString(KeepCount(instruction.keep)) >>
                             ELSE << >> ]

\* Variant: no instruction is excluded.
NewScopedInstrumenter_NoExclusion(instruction) ==
  [ some        |-> TRUE,
    instruction |-> InstructionStr[instruction.tag],
    properties  |-> IF instruction.tag \in PropertyTags
                      THEN << UsizeToString(KeepCount(instruction.keep)) >>
                      ELSE << >> ]

\* Variant: I32Sub is given the string of I32Add.
NewScopedInstrumenter_SharedKind(instruction) ==
  IF instruction.tag \in DenyList
    THEN NoHandle
    ELSE [ some        |-> TRUE,
           instruction |-> IF instruction.tag = "Instruction::I32Sub"
                             THEN "I32Add"
                             ELSE InstructionStr[instruction.tag],
           properties  |-> IF instruction.tag \in PropertyTags
                             THEN << UsizeToString(KeepCount(instruction.keep)) >>
                             ELSE << >> ]

\* ScopedInstrumenter::new(instruction): None, or the handle's
\* (instruction, properties) fields.  The start instant is not kept: the
\* elapsed time is drawn when the handle is dropped.
NewScopedInstrumenter(instruction) ==
  IF instruction.tag \in DenyList
    THEN NoHandle
    ELSE [ some        |-> TRUE,
           instruction |-> InstructionStr[instruction.tag],
           properties  |-> IF instruction.tag \in PropertyTags
                             THEN << UsizeToString(KeepCount(instruction.keep)) >>
                             ELSE << >> ]

\* The tags of Instruction: the arms of the second match.
Tags == DOMAIN InstructionStr

\* The tags whose variant carries a value, matched as (_) or bound.
OperandTags ==
  { "Instruction::GetLocal", "Instruction::SetLocal",
    "Instruction::TeeLocal", "Instruction::Br", "Instruction::BrIfEqz",
    "Instruction::BrIfNez", "Instruction::BrTable", "Instruction::Return",
    "Instruction::Call", "Instruction::CallIndirect",
    "Instruction::GetGlobal", "Instruction::SetGlobal",
    "Instruction::I32Load", "Instruction::I64Load", "Instruction::F32Load",
    "Instruction::F64Load", "Instruction::I32Load8S",
    "Instruction::I32Load8U", "Instruction::I32Load16S",
    "Instruction::I32Load16U", "Instruction::I64Load8S",
    "Instruction::I64Load8U", "Instruction::I64Load16S",
    "Instruction::I64Load16U", "Instruction::I64Load32S",
    "Instruction::I64Load32U", "Instruction::I32Store",
    "Instruction::I64Store", "Instruction::F32Store",
    "Instruction::F64Store", "Instruction::I32Store8",
    "Instruction::I32Store16", "Instruction::I64Store8",
    "Instruction::I64Store16", "Instruction::I64Store32",
    "Instruction::I32Const", "Instruction::I64Const",
    "Instruction::F32Const", "Instruction::F64Const" }

\* The tags whose value holds a drop_keep: a Target or a DropKeep.
DropKeepTags ==
  { "Instruction::Br", "Instruction::BrIfEqz", "Instruction::BrIfNez",
    "Instruction::Return" }

\* The values of Instruction: every tag, with each keep of its drop_keep
\* and two values of the rest of what it carries.
AllInstructions ==
  { i \in [tag : Tags, keep : {"None", "Single"}, operand : {0, 1}] :
      /\ i.keep = "Single" => i.tag \in DropKeepTags
      /\ i.operand = 1 => i.tag \in OperandTags }

\* No instruction dispatched yet.
NoInstruction == [tag |-> "", keep |-> "None", operand |-> 0]

\* The instructions the interpreter threads dispatch in the model.
DispatchedInstructions ==
  { [tag |-> "Instruction::I32Add", keep |-> "None", operand |-> 0],
    [tag |-> "Instruction::Return", keep |-> "Single", operand |-> 0],
    [tag |-> "Instruction::F32Add", keep |-> "None", operand |-> 0] }

\* The kind strings of the dispatched instructions: one log file each.
Kinds == { InstructionStr[i.tag] : i \in DispatchedInstructions }


\* Elapsed times (Duration), in nanoseconds.
Durations == { 123400, 7 }

(***************************************************************************)
(* Formatting of a row: InstrumentationFile::instrument.                   *)
(***************************************************************************)
RECURSIVE NumDigits(_)
NumDigits(n) == IF n < 10 THEN 1 ELSE 1 + NumDigits(n \div 10)

\* The 6 fractional digits of a 7-digit mantissa.
RECURSIVE FracDigits(_, _)
FracDigits(m, k) ==
  IF k = 0 THEN "" ELSE FracDigits(m \div 10, k - 1) \o DigitStr(m % 10)

\* Variant: the exponent printed with a sign and two digits, as C does.
FormatSeconds_PaddedExponent(ns) ==
  IF ns = 0
    THEN "0.000000e+00"
    ELSE LET k == NumDigits(ns)
             m == ns * 10 ^ (7 - k)
             e == k - 10
         IN  DigitStr(m \div 1000000) \o "." \o FracDigits(m % 1000000, 6)
               \o "e" \o (IF e < 0 THEN "-" ELSE "+")
               \o (IF e > -10 /\ e < 10 THEN "0" ELSE "")
               \o UsizeToString(IF e < 0 THEN 0 - e ELSE e)

\* format!("{:.06e}", duration.as_secs_f64()) for a duration of ns
\* nanoseconds with at most 7 significant digits (no rounding needed).
FormatSeconds(ns) ==
  IF ns = 0
    THEN "0.000000e0"
    ELSE LET k == NumDigits(ns)
             m == ns * 10 ^ (7 - k)
             e == k - 10
         IN  DigitStr(m \div 1000000) \o "." \o FracDigits(m % 1000000, 6)
               \o "e" \o (IF e < 0 THEN "-" \o UsizeToString(0 - e) ELSE UsizeToString(e))

(***************************************************************************)
(* Log files.  A file is [prior, tail]: prior counts the complete lines    *)
(* left by earlier runs of the program (line 1 the header, the others      *)
(* rows), and tail is the sequence of writes made since, each a text and   *)
(* whether it ends the line (writeln!) or not (write!).                    *)
(***************************************************************************)
HeaderText == "args,n_exec,total_elapsed_time"

\* Variant: the header written with write!, without the newline.
HeaderWrite_NoNewline == [text |-> HeaderText, nl |-> FALSE]

\* writeln!(file, "args,n_exec,total_elapsed_time")
HeaderWrite == [text |-> HeaderText, nl |-> TRUE]

\* write!(self.file, "\"(")
RowOpenWrite == [text |-> "\"(", nl |-> FALSE]

\* write!(self.file, "{},", value)
PropertyWrite(value) == [text |-> value \o ",", nl |-> FALSE]

\* writeln!(self.file, ")\",1,{:.06e}", duration.as_secs_f64())
RowCloseWrite(duration) ==
  [text |-> ")\",1," \o FormatSeconds(duration), nl |-> TRUE]

\* The writes instrument makes for one row, in order.
RowWrites(properties, duration) ==
  << RowOpenWrite >>
    \o [i \in 1 .. Len(properties) |-> PropertyWrite(properties[i])]
    \o << RowCloseWrite(duration) >>

EmptyFile == [exists |-> TRUE, prior |-> 0, tail |-> << >>]

\* A write through the file handle: the bytes go to the end of the file.
WriteTo(file, write) == [file EXCEPT !.tail = Append(@, write)]

\* File::create(&path): creates the file, or truncates an existing one.
FileCreate(old) == EmptyFile

\* Variant: the reopened log gets the header again.
FileOpenAppend_RewritesHeader(old) == WriteTo(old, HeaderWrite)

\* Variant: the log is reopened with truncation.
FileOpenAppend_Truncate(old) == EmptyFile

\* OpenOptions::new().append(true).open(&path): the content is kept.
FileOpenAppend(old) == old

\* The lines of the writes, as str::lines() splits them: every newline ends
\* a line, and a non-empty remainder is a last line.
RECURSIVE TailLines(_, _)
TailLines(tail, cur) ==
  IF tail = << >>
    THEN IF cur = "" THEN << >> ELSE << cur >>
    ELSE IF Head(tail).nl
           THEN << cur \o Head(tail).text >> \o TailLines(Tail(tail), "")
           ELSE TailLines(Tail(tail), cur \o Head(tail).text)

\* contents.lines().count()
LinesCount(file) == file.prior + Len(TailLines(file.tail, ""))

\* Variant: the header line is not discounted.
RecoveredCounts_NoDiscount(file) ==
  { [panic |-> FALSE, count |-> LinesCount(file)] }

\* Variant: a reopened log starts counting at 0.
RecoveredCounts_Zero(file) == { [panic |-> FALSE, count |-> 0] }

\* contents.lines().count() - 1 on a usize: an empty file underflows, which
\* panics when overflow checks are on and wraps when they are off.
RecoveredCounts(file) ==
  IF LinesCount(file) >= 1
    THEN { [panic |-> FALSE, count |-> LinesCount(file) - 1] }
    ELSE { [panic |-> TRUE, count |-> 0],
           [panic |-> FALSE, count |-> (LinesCount(file) - 1) % USIZE_MOD] }

(***************************************************************************)
(* State.                                                                  *)
(***************************************************************************)
VARIABLES
  disk,        \* OUTPUT_DIR/<kind>.csv: NotFound or a file
  dirExists,   \* whether the directory target/metrics exists
  outputDir,   \* lazy static OUTPUT_DIR: "uninit", "ready" or "poisoned"
  files,       \* INSTRUMENTATION_FILES: kind -> None or an InstrumentationFile
  lockHolder,  \* the thread holding the Mutex's guard, or None
  poisoned,    \* the Mutex's poison flag
  alive,       \* FALSE once the process has aborted
  pc,          \* each thread's position
  scoped,      \* each thread's ScopedInstrumenter, or None
  unwinding,   \* whether the thread drops its handle while panicking
  elapsed,     \* self.start.elapsed() taken by drop
  contents,    \* the contents read by InstrumentationFile::new
  written,     \* how many properties of the row instrument has written
  ioFailed,    \* history: an I/O operation has failed (kept over restarts)
  failedRun,   \* history: an I/O operation has failed in this process
  atStart,     \* history: each log as it was when this process started
  accepted,    \* history: whether instrument's test passed in this drop
  finalized,   \* history: drops run for the thread's latest handle
  opened,      \* history: what the thread's latest open returned
  instr,       \* history: the instruction of the thread's latest open
  constructed, \* history: runs of InstrumentationFile::new, per kind
  completed,   \* history: drops that returned normally, per kind
  callers,     \* history: the threads whose drops returned, per kind
  ideal,       \* history: the log a single uninterrupted run would hold
  ops,         \* instructions dispatched so far
  restarts     \* process restarts so far

fsVars   == << disk, dirExists >>
mtxVars  == << lockHolder, poisoned >>
thrVars  == << scoped, unwinding, elapsed >>
histVars == << failedRun, atStart, accepted, finalized, opened, instr, constructed,
              completed, callers, ideal >>
cntVars  == << ops, restarts >>

vars == << disk, dirExists, outputDir, files, lockHolder, poisoned, alive, pc,
           scoped, unwinding, elapsed, contents, written, ioFailed, failedRun,
           atStart, accepted, finalized, opened, instr, constructed, completed,
           callers, ideal, ops, restarts >>

\* A log as an earlier run of the program leaves it: the header and n rows.
PriorLog(n) == [exists |-> TRUE, prior |-> 1 + n, tail |-> << >>]

\* The logs an earlier run can have left for a kind.
PriorLogs(k) ==
  IF \E i \in DispatchedInstructions :
       i.tag \notin DenyList /\ InstructionStr[i.tag] = k
    THEN { NotFound } \cup
         { PriorLog(n) : n \in (TARGET_ENTRY_COUNT - NearCap) .. TARGET_ENTRY_COUNT }
    ELSE { NotFound }

\* The data rows of a file that holds the header: the lines after line 1.
DataRows(file) == LinesCount(file) - 1

\* The sink a single run holds for a log: its rows counted once.
IdealOf(file) ==
  IF file.exists THEN [log |-> file, entry_count |-> DataRows(file)]
                 ELSE [log |-> NotFound, entry_count |-> 0]

Init ==
  /\ disk \in { d \in [Kinds -> {NotFound} \cup UNION { PriorLogs(k) : k \in Kinds }] :
                  \A k \in Kinds : d[k] \in PriorLogs(k) }
  /\ dirExists \in { b \in BOOLEAN : (\E k \in Kinds : disk[k].exists) => b }
  /\ outputDir = "uninit"
  /\ files = [k \in Kinds |-> NoSink]
  /\ lockHolder = NoThread
  /\ poisoned = FALSE
  /\ alive = TRUE
  /\ pc = [t \in Threads |-> "idle"]
  /\ scoped = [t \in Threads |-> NoHandle]
  /\ unwinding = [t \in Threads |-> FALSE]
  /\ elapsed = [t \in Threads |-> 0]
  /\ contents = [t \in Threads |-> NotFound]
  /\ written = [t \in Threads |-> 0]
  /\ ioFailed = FALSE
  /\ failedRun = FALSE
  /\ atStart = disk
  /\ accepted = [t \in Threads |-> FALSE]
  /\ finalized = [t \in Threads |-> 0]
  /\ opened = [t \in Threads |-> "nothing"]
  /\ instr = [t \in Threads |-> NoInstruction]
  /\ constructed = [k \in Kinds |-> 0]
  /\ completed = [k \in Kinds |-> 0]
  /\ callers = [k \in Kinds |-> {}]
  /\ ideal = [k \in Kinds |-> IdealOf(disk[k])]
  /\ ops = 0
  /\ restarts = 0

(***************************************************************************)
(* ScopedInstrumenter::new and the scope of the handle.                    *)
(***************************************************************************)
\* The interpreter dispatches an instruction: ScopedInstrumenter::new.  A
\* denied instruction gets no handle and runs untimed.
Open(t, instruction) ==
  /\ alive /\ pc[t] = "idle" /\ ops < MaxOps
  /\ ops' = ops + 1
  /\ LET handle == NewScopedInstrumenter(instruction) IN
       /\ scoped' = [scoped EXCEPT ![t] = handle]
       /\ pc' = [pc EXCEPT ![t] = IF handle.some THEN "timed" ELSE "idle"]
       /\ opened' = [opened EXCEPT ![t] = IF handle.some THEN "handle" ELSE "nothing"]
  /\ instr' = [instr EXCEPT ![t] = instruction]
  /\ finalized' = [finalized EXCEPT ![t] = 0]
  /\ accepted' = [accepted EXCEPT ![t] = FALSE]
  /\ UNCHANGED << fsVars, outputDir, files, mtxVars, alive, unwinding, elapsed,
                  contents, written, ioFailed, failedRun, atStart, constructed,
                  completed, callers, ideal, restarts >>

\* Variant: a scope left by unwinding does not run the drop.
ExitScope_LeakOnUnwind(t, how, duration) ==
  /\ alive /\ pc[t] = "timed"
  /\ unwinding' = [unwinding EXCEPT ![t] = (how = "unwind")]
  /\ IF how = "unwind"
       THEN /\ pc' = [pc EXCEPT ![t] = "panicked"]
            /\ UNCHANGED << elapsed, finalized >>
       ELSE /\ pc' = [pc EXCEPT ![t] = "drop"]
            /\ elapsed' = [elapsed EXCEPT ![t] = duration]
            /\ finalized' = [finalized EXCEPT ![t] = @ + 1]
  /\ UNCHANGED << fsVars, outputDir, files, mtxVars, alive, scoped, contents,
                  written, ioFailed, failedRun, atStart, accepted, opened, instr,
                  constructed, completed, callers, ideal, cntVars >>

\* The handle's scope ends, by return or by a panic that unwinds through
\* it: drop runs either way and takes the elapsed time.
ExitScope(t, how, duration) ==
  /\ alive /\ pc[t] = "timed"
  /\ unwinding' = [unwinding EXCEPT ![t] = (how = "unwind")]
  /\ pc' = [pc EXCEPT ![t] = "drop"]
  /\ elapsed' = [elapsed EXCEPT ![t] = duration]
  /\ finalized' = [finalized EXCEPT ![t] = @ + 1]
  /\ UNCHANGED << fsVars, outputDir, files, mtxVars, alive, scoped, contents,
                  written, ioFailed, failedRun, atStart, accepted, opened, instr,
                  constructed, completed, callers, ideal, cntVars >>

(***************************************************************************)
(* Panics.                                                                 *)
(***************************************************************************)
\* Variant: a lock that is never poisoned.
PoisonsOnPanic_Never(t) == FALSE

\* Whether the guard's drop poisons the Mutex: when the panic started
\* while the guard was held.
PoisonsOnPanic(t) == lockHolder = t /\ ~unwinding[t]

\* A panic in thread t: the guard it holds is released and the Mutex
\* poisoned; a panic while already unwinding aborts the process, any other
\* panic ends the thread.
Panic(t) ==
  /\ poisoned' = (poisoned \/ PoisonsOnPanic(t))
  /\ lockHolder' = IF lockHolder = t THEN NoThread ELSE lockHolder
  /\ alive' = ~unwinding[t]
  /\ pc' = [pc EXCEPT ![t] = "panicked"]
  /\ scoped' = [scoped EXCEPT ![t] = NoHandle]
  /\ contents' = [contents EXCEPT ![t] = NotFound]
  /\ written' = [written EXCEPT ![t] = 0]

(***************************************************************************)
(* Drop for ScopedInstrumenter.                                            *)
(***************************************************************************)
\* The single-run reference for one more sample (properties, duration) of
\* kind k: the log is created with its header when absent, and the row is
\* appended while the count is below the cap.
IdealRecord(ref, properties, duration) ==
  LET log0 == IF ref.log.exists
                THEN ref.log
                ELSE [exists |-> TRUE, prior |-> 0, tail |-> << HeaderWrite >>]
      row  == RowWrites(properties, duration)
  IN  IF ref.entry_count < TARGET_ENTRY_COUNT
        THEN [log |-> [log0 EXCEPT !.tail = @ \o row],
              entry_count |-> ref.entry_count + 1]
        ELSE [log |-> log0, entry_count |-> ref.entry_count]

\* Variant: no mutual exclusion.
LockAvailable_Always(t) == TRUE

\* Whether thread t may take the guard: Mutex::lock blocks while another
\* thread holds it.
LockAvailable(t) == lockHolder = NoThread

\* INSTRUMENTATION_FILES.lock().unwrap(): a poisoned Mutex makes the
\* unwrap panic.
Lock(t) ==
  /\ alive /\ pc[t] = "drop" /\ LockAvailable(t)
  /\ IF poisoned
       THEN /\ Panic(t)
            /\ UNCHANGED ideal
       ELSE /\ lockHolder' = t
            /\ pc' = [pc EXCEPT ![t] = "entry"]
            /\ ideal' = [ideal EXCEPT ![scoped[t].instruction] =
                           IdealRecord(@, scoped[t].properties, elapsed[t])]
            /\ UNCHANGED << poisoned, alive, scoped, contents, written >>
  /\ UNCHANGED << fsVars, outputDir, files, unwinding, elapsed, ioFailed,
                  failedRun, atStart, accepted, finalized, opened, instr, constructed,
                  completed, callers, cntVars >>

\* Variant: the sink is constructed on every call (insert, not
\* or_insert_with).
Entry_AlwaysConstructs(t) ==
  /\ alive /\ pc[t] = "entry"
  /\ pc' = [pc EXCEPT ![t] = "output_dir"]
  /\ constructed' = [constructed EXCEPT ![scoped[t].instruction] = @ + 1]
  /\ UNCHANGED << fsVars, outputDir, files, mtxVars, alive, thrVars, contents,
                  written, ioFailed, failedRun, atStart, accepted, finalized,
                  opened, instr, completed, callers, ideal, cntVars >>

\* .entry(self.instruction).or_insert_with(...): an existing sink is
\* used, an absent one is constructed by InstrumentationFile::new.
Entry(t) ==
  /\ alive /\ pc[t] = "entry"
  /\ LET k == scoped[t].instruction IN
       IF files[k].present
         THEN /\ pc' = [pc EXCEPT ![t] = "check"]
              /\ UNCHANGED constructed
         ELSE /\ pc' = [pc EXCEPT ![t] = "output_dir"]
              /\ constructed' = [constructed EXCEPT ![k] = @ + 1]
  /\ UNCHANGED << fsVars, outputDir, files, mtxVars, alive, thrVars, contents,
                  written, ioFailed, failedRun, atStart, accepted, finalized,
                  opened, instr, completed, callers, ideal, cntVars >>

(***************************************************************************)
(* InstrumentationFile::new.                                               *)
(***************************************************************************)
\* OUTPUT_DIR.join(...): the first use of the lazy static runs
\* fs::create_dir_all, which succeeds here.
OutputDir(t) ==
  /\ alive /\ pc[t] = "output_dir" /\ outputDir # "poisoned"
  /\ outputDir' = "ready"
  /\ dirExists' = TRUE
  /\ pc' = [pc EXCEPT ![t] = "read"]
  /\ UNCHANGED << disk, files, mtxVars, alive, thrVars, contents, written,
                  ioFailed, histVars, cntVars >>

\* fs::read_to_string(&path): NotFound leads to the creation of the log,
\* contents to its reopening.
Read(t) ==
  /\ alive /\ pc[t] = "read"
  /\ LET k == scoped[t].instruction IN
       IF ~disk[k].exists
         THEN /\ pc' = [pc EXCEPT ![t] = "create"]
              /\ UNCHANGED contents
         ELSE /\ pc' = [pc EXCEPT ![t] = "open"]
              /\ contents' = [contents EXCEPT ![t] = disk[k]]
  /\ UNCHANGED << fsVars, outputDir, files, mtxVars, alive, thrVars, written,
                  ioFailed, histVars, cntVars >>

\* File::create(&path) succeeds.
Create(t) ==
  /\ alive /\ pc[t] = "create"
  /\ LET k == scoped[t].instruction IN
       disk' = [disk EXCEPT ![k] = FileCreate(@)]
  /\ pc' = [pc EXCEPT ![t] = "header"]
  /\ UNCHANGED << dirExists, outputDir, files, mtxVars, alive, thrVars,
                  contents, written, ioFailed, histVars, cntVars >>

\* writeln!(file, "args,n_exec,total_elapsed_time") succeeds; new returns
\* the sink with entry_count 0 and or_insert_with inserts it.
Header(t) ==
  /\ alive /\ pc[t] = "header"
  /\ LET k == scoped[t].instruction IN
       /\ disk' = [disk EXCEPT ![k] = WriteTo(@, HeaderWrite)]
       /\ files' = [files EXCEPT ![k] = [present |-> TRUE, entry_count |-> 0]]
  /\ pc' = [pc EXCEPT ![t] = "check"]
  /\ UNCHANGED << dirExists, outputDir, mtxVars, alive, thrVars, contents,
                  written, ioFailed, histVars, cntVars >>

\* OpenOptions::new().append(true).open(&path) succeeds and entry_count is
\* recovered from the contents read; new returns the sink and
\* or_insert_with inserts it.  An underflow of the subtraction panics or
\* wraps.
OpenAppend(t) ==
  /\ alive /\ pc[t] = "open"
  /\ LET k == scoped[t].instruction IN
       /\ disk' = [disk EXCEPT ![k] = FileOpenAppend(@)]
       /\ \E r \in RecoveredCounts(contents[t]) :
            IF r.panic
              THEN /\ Panic(t)
                   /\ UNCHANGED files
              ELSE /\ files' = [files EXCEPT ![k] = [present |-> TRUE, entry_count |-> r.count]]
                   /\ pc' = [pc EXCEPT ![t] = "check"]
                   /\ contents' = [contents EXCEPT ![t] = NotFound]
                   /\ UNCHANGED << mtxVars, alive, scoped, written >>
  /\ UNCHANGED << dirExists, outputDir, unwinding, elapsed, ioFailed, histVars,
                  cntVars >>

(***************************************************************************)
(* InstrumentationFile::instrument.                                        *)
(***************************************************************************)
\* Variant: the test off by one.
BelowTarget_Inclusive(sink) == sink.entry_count <= TARGET_ENTRY_COUNT

\* self.entry_count < TARGET_ENTRY_COUNT
BelowTarget(sink) == sink.entry_count < TARGET_ENTRY_COUNT

\* Variant: a sink found at the target is removed from the map.
Check_EvictsFull(t) ==
  /\ alive /\ pc[t] = "check"
  /\ LET k == scoped[t].instruction
         below == BelowTarget(files[k]) IN
       /\ pc' = [pc EXCEPT ![t] = IF below THEN "write_open" ELSE "unlock"]
       /\ accepted' = [accepted EXCEPT ![t] = below]
       /\ files' = IF below THEN files ELSE [files EXCEPT ![k] = NoSink]
  /\ UNCHANGED << fsVars, outputDir, mtxVars, alive, thrVars, contents,
                  written, ioFailed, failedRun, atStart, finalized, opened,
                  instr, constructed, completed, callers, ideal, cntVars >>

\* Variant: one target shared by the sinks of all kinds.
Check_SharedTarget(t) ==
  /\ alive /\ pc[t] = "check"
  /\ LET below == \A k \in Kinds : files[k].present => BelowTarget(files[k]) IN
       /\ pc' = [pc EXCEPT ![t] = IF below THEN "write_open" ELSE "unlock"]
       /\ accepted' = [accepted EXCEPT ![t] = below]
  /\ UNCHANGED << fsVars, outputDir, files, mtxVars, alive, thrVars, contents,
                  written, ioFailed, failedRun, atStart, finalized, opened,
                  instr, constructed, completed, callers, ideal, cntVars >>

\* The test of instrument: at the target nothing is written.
Check(t) ==
  /\ alive /\ pc[t] = "check"
  /\ LET below == BelowTarget(files[scoped[t].instruction]) IN
       /\ pc' = [pc EXCEPT ![t] = IF below THEN "write_open" ELSE "unlock"]
       /\ accepted' = [accepted EXCEPT ![t] = below]
  /\ UNCHANGED << fsVars, outputDir, files, mtxVars, alive, thrVars, contents,
                  written, ioFailed, failedRun, atStart, finalized, opened, instr,
                  constructed, completed, callers, ideal, cntVars >>

\* write!(self.file, "\"(") succeeds.
WriteOpen(t) ==
  /\ alive /\ pc[t] = "write_open"
  /\ LET k == scoped[t].instruction IN
       disk' = [disk EXCEPT ![k] = WriteTo(@, RowOpenWrite)]
  /\ written' = [written EXCEPT ![t] = 0]
  /\ pc' = [pc EXCEPT ![t] = "write_props"]
  /\ UNCHANGED << dirExists, outputDir, files, mtxVars, alive, thrVars,
                  contents, ioFailed, histVars, cntVars >>

\* for value in properties { write!(self.file, "{},", value) }: one
\* iteration that succeeds.
WriteProperty(t) ==
  /\ alive /\ pc[t] = "write_props"
  /\ written[t] < Len(scoped[t].properties)
  /\ LET k == scoped[t].instruction IN
       disk' = [disk EXCEPT ![k] =
                  WriteTo(@, PropertyWrite(scoped[t].properties[written[t] + 1]))]
  /\ written' = [written EXCEPT ![t] = @ + 1]
  /\ UNCHANGED << dirExists, outputDir, files, mtxVars, alive, pc, thrVars,
                  contents, ioFailed, histVars, cntVars >>

\* writeln!(self.file, ")\",1,{:.06e}", ...) succeeds, after the loop.
WriteClose(t) ==
  /\ alive /\ pc[t] = "write_props"
  /\ written[t] = Len(scoped[t].properties)
  /\ LET k == scoped[t].instruction IN
       disk' = [disk EXCEPT ![k] = WriteTo(@, RowCloseWrite(elapsed[t]))]
  /\ written' = [written EXCEPT ![t] = 0]
  /\ pc' = [pc EXCEPT ![t] = "increment"]
  /\ UNCHANGED << dirExists, outputDir, files, mtxVars, alive, thrVars,
                  contents, ioFailed, histVars, cntVars >>

\* Variant: the count is not incremented.
Increment_Lost(t) ==
  /\ alive /\ pc[t] = "increment"
  /\ pc' = [pc EXCEPT ![t] = "unlock"]
  /\ UNCHANGED << fsVars, outputDir, files, mtxVars, alive, thrVars, contents,
                  written, ioFailed, histVars, cntVars >>

\* self.entry_count += 1
Increment(t) ==
  /\ alive /\ pc[t] = "increment"
  /\ LET k == scoped[t].instruction IN
       files' = [files EXCEPT ![k].entry_count = @ + 1]
  /\ pc' = [pc EXCEPT ![t] = "unlock"]
  /\ UNCHANGED << fsVars, outputDir, mtxVars, alive, thrVars, contents, written,
                  ioFailed, histVars, cntVars >>

\* Variant: drop returns without releasing the guard.
Unlock_KeepsGuard(t) ==
  /\ alive /\ pc[t] = "unlock"
  /\ lockHolder' = lockHolder
  /\ pc' = [pc EXCEPT ![t] = IF unwinding[t] THEN "panicked" ELSE "idle"]
  /\ LET k == scoped[t].instruction IN
       /\ completed' = [completed EXCEPT ![k] = @ + 1]
       /\ callers' = [callers EXCEPT ![k] = @ \cup {t}]
  /\ scoped' = [scoped EXCEPT ![t] = NoHandle]
  /\ UNCHANGED << fsVars, outputDir, files, poisoned, alive, unwinding, elapsed,
                  contents, written, ioFailed, failedRun, atStart, accepted,
                  finalized, opened, instr, constructed, ideal, cntVars >>

\* The statement ends: the guard is dropped and drop returns.  A thread
\* that was unwinding goes on unwinding and ends.
Unlock(t) ==
  /\ alive /\ pc[t] = "unlock"
  /\ lockHolder' = IF lockHolder = t THEN NoThread ELSE lockHolder
  /\ pc' = [pc EXCEPT ![t] = IF unwinding[t] THEN "panicked" ELSE "idle"]
  /\ LET k == scoped[t].instruction IN
       /\ completed' = [completed EXCEPT ![k] = @ + 1]
       /\ callers' = [callers EXCEPT ![k] = @ \cup {t}]
  /\ scoped' = [scoped EXCEPT ![t] = NoHandle]
  /\ UNCHANGED << fsVars, outputDir, files, poisoned, alive, unwinding, elapsed,
                  contents, written, ioFailed, failedRun, atStart, accepted,
                  finalized, opened, instr, constructed, ideal, cntVars >>

(***************************************************************************)
(* I/O failures.                                                           *)
(***************************************************************************)
\* The positions at which the next operation is an I/O operation whose
\* failure the code turns into a panic.
IoSteps ==
  { "output_dir", "read", "create", "header", "open", "write_open",
    "write_props" }

\* What a failing write can have put into the file: nothing, or, for a
\* writeln!, the text without the newline that the unbuffered File gets
\* as a write of its own.
FailedWrites(t) ==
  { << >> } \cup
  ( IF pc[t] = "header"
      THEN { << [HeaderWrite EXCEPT !.nl = FALSE] >> }
    ELSE IF pc[t] = "write_props" /\ written[t] = Len(scoped[t].properties)
      THEN { << [RowCloseWrite(elapsed[t]) EXCEPT !.nl = FALSE] >> }
    ELSE { } )

\* An I/O operation fails and its unwrap_or_else panics.  A failure of
\* create_dir_all poisons the lazy static.
IoPanic(t) ==
  /\ alive /\ pc[t] \in IoSteps
  /\ pc[t] = "output_dir" => outputDir = "uninit" /\ ~dirExists
  /\ outputDir' = IF pc[t] = "output_dir" THEN "poisoned" ELSE outputDir
  /\ \E left \in FailedWrites(t) :
       disk' = IF left = << >> THEN disk
               ELSE [disk EXCEPT ![scoped[t].instruction] = WriteTo(@, left[1])]
  /\ ioFailed' = TRUE
  /\ failedRun' = TRUE
  /\ Panic(t)
  /\ UNCHANGED << dirExists, files, unwinding, elapsed, atStart, accepted,
                  finalized, opened, instr, constructed, completed, callers, ideal,
                  cntVars >>

(***************************************************************************)
(* The process.                                                            *)
(***************************************************************************)
\* The process ends, by itself or by an abort, while no thread is inside
\* the guarded statement, and the program is started again: the statics are
\* fresh, the files stay.
Restart ==
  /\ lockHolder = NoThread
  /\ restarts < MaxRestarts
  /\ restarts' = restarts + 1
  /\ outputDir' = "uninit"
  /\ files' = [k \in Kinds |-> NoSink]
  /\ poisoned' = FALSE
  /\ alive' = TRUE
  /\ pc' = [t \in Threads |-> "idle"]
  /\ scoped' = [t \in Threads |-> NoHandle]
  /\ unwinding' = [t \in Threads |-> FALSE]
  /\ elapsed' = [t \in Threads |-> 0]
  /\ contents' = [t \in Threads |-> NotFound]
  /\ written' = [t \in Threads |-> 0]
  /\ failedRun' = FALSE
  /\ atStart' = disk
  /\ accepted' = [t \in Threads |-> FALSE]
  /\ finalized' = [t \in Threads |-> 0]
  /\ opened' = [t \in Threads |-> "nothing"]
  /\ instr' = [t \in Threads |-> NoInstruction]
  /\ constructed' = [k \in Kinds |-> 0]
  /\ completed' = [k \in Kinds |-> 0]
  /\ callers' = [k \in Kinds |-> {}]
  /\ UNCHANGED << fsVars, lockHolder, ioFailed, ideal, ops >>

Next ==
  \/ \E t \in Threads, i \in DispatchedInstructions : Open(t, i)
  \/ \E t \in Threads, how \in {"return", "unwind"}, d \in Durations :
       ExitScope(t, how, d)
  \/ \E t \in Threads : Lock(t)
  \/ \E t \in Threads : Entry(t)
  \/ \E t \in Threads : OutputDir(t)
  \/ \E t \in Threads : Read(t)
  \/ \E t \in Threads : Create(t)
  \/ \E t \in Threads : Header(t)
  \/ \E t \in Threads : OpenAppend(t)
  \/ \E t \in Threads : Check(t)
  \/ \E t \in Threads : WriteOpen(t)
  \/ \E t \in Threads : WriteProperty(t)
  \/ \E t \in Threads : WriteClose(t)
  \/ \E t \in Threads : Increment(t)
  \/ \E t \in Threads : Unlock(t)
  \/ \E t \in Threads : IoPanic(t)
  \/ Restart

Spec == Init /\ [][Next]_vars

(***************************************************************************)
(* The process while every I/O operation succeeds and it is not ended:     *)
(* the steps of drop are taken by running threads, so each thread's next   *)
(* step of drop is taken if it stays possible.  Mutex::lock promises no    *)
(* order among waiters; weak fairness asks for none.                       *)
(***************************************************************************)
\* The next step of thread t inside drop.
DropStep(t) ==
  \/ Lock(t)
  \/ Entry(t)
  \/ OutputDir(t)
  \/ Read(t)
  \/ Create(t)
  \/ Header(t)
  \/ OpenAppend(t)
  \/ Check(t)
  \/ WriteOpen(t)
  \/ WriteProperty(t)
  \/ WriteClose(t)
  \/ Increment(t)
  \/ Unlock(t)

LiveNext ==
  \/ \E t \in Threads, i \in DispatchedInstructions : Open(t, i)
  \/ \E t \in Threads, how \in {"return", "unwind"}, d \in Durations :
       ExitScope(t, how, d)
  \/ \E t \in Threads : DropStep(t)

LiveSpec ==
  Init /\ [][LiveNext]_vars /\ \A t \in Threads : WF_vars(DropStep(t))

(***************************************************************************)
(* InstrumentationFile::instrument on its own.                             *)
(***************************************************************************)
\* The property lists and durations instrument is called with.
InstrumentProperties == { << >>, << "2" >>, << "0", "1" >> }

InstrumentDurations == { 0, 7, 1500, 123400, 9999999 }

\* The sinks instrument is called on: just created, or reopened over a
\* log of an earlier run.
InstrumentSinks ==
  { [log |-> WriteTo(EmptyFile, HeaderWrite), entry_count |-> 0] } \cup
  { [log |-> PriorLog(n), entry_count |-> n] :
      n \in (TARGET_ENTRY_COUNT - NearCap) .. TARGET_ENTRY_COUNT }

\* A thread has the guard and the sink of a kind, and calls
\* instrument(duration, properties) on it.
InstrumentInit ==
  \E t \in Threads, k \in Kinds, p \in InstrumentProperties,
     d \in InstrumentDurations, sink \in InstrumentSinks :
    /\ disk = [j \in Kinds |-> IF j = k THEN sink.log ELSE NotFound]
    /\ dirExists = TRUE
    /\ outputDir = "ready"
    /\ files = [j \in Kinds |->
                  IF j = k THEN [present |-> TRUE, entry_count |-> sink.entry_count]
                           ELSE NoSink]
    /\ lockHolder = t
    /\ poisoned = FALSE
    /\ alive = TRUE
    /\ pc = [u \in Threads |-> IF u = t THEN "check" ELSE "idle"]
    /\ scoped = [u \in Threads |->
                   IF u = t THEN [some |-> TRUE, instruction |-> k, properties |-> p]
                            ELSE NoHandle]
    /\ unwinding = [u \in Threads |-> FALSE]
    /\ elapsed = [u \in Threads |-> IF u = t THEN d ELSE 0]
    /\ contents = [u \in Threads |-> NotFound]
    /\ written = [u \in Threads |-> 0]
    /\ ioFailed = FALSE
    /\ failedRun = FALSE
    /\ atStart = disk
    /\ accepted = [u \in Threads |-> FALSE]
    /\ finalized = [u \in Threads |-> IF u = t THEN 1 ELSE 0]
    /\ opened = [u \in Threads |-> IF u = t THEN "handle" ELSE "nothing"]
    /\ instr = [u \in Threads |-> NoInstruction]
    /\ constructed = [j \in Kinds |-> IF j = k THEN 1 ELSE 0]
    /\ completed = [j \in Kinds |-> 0]
    /\ callers = [j \in Kinds |-> {}]
    /\ ideal = [j \in Kinds |-> IdealOf(disk[j])]
    /\ ops = 1
    /\ restarts = 0

InstrumentNext ==
  \/ \E t \in Threads : Check(t)
  \/ \E t \in Threads : WriteOpen(t)
  \/ \E t \in Threads : WriteProperty(t)
  \/ \E t \in Threads : WriteClose(t)
  \/ \E t \in Threads : Increment(t)
  \/ \E t \in Threads : Unlock(t)

InstrumentSpec == InstrumentInit /\ [][InstrumentNext]_vars

(***************************************************************************)
(* ScopedInstrumenter::new on every value of Instruction.                  *)
(***************************************************************************)
\* The first call of ScopedInstrumenter::new in a process, on any value.
Classify(t, instruction) == ops = 0 /\ Open(t, instruction)

ClassifyNext == \E t \in Threads, i \in AllInstructions : Classify(t, i)

ClassifySpec == Init /\ [][ClassifyNext]_vars

TypeOK ==
  /\ lockHolder \in Threads \cup {NoThread}
  /\ \A k \in Kinds : files[k].entry_count \in 0 .. USIZE_MOD - 1
  /\ \A k \in Kinds : disk[k].exists \/ disk[k] = NotFound
  /\ \A t \in Threads : pc[t] = "idle" \/ pc[t] = "panicked" \/ scoped[t].some
(***************************************************************************)
(* Vocabulary of the properties.                                           *)
(***************************************************************************)
\* The property lists the dispatched instructions give kind k.
PropertiesOf(k) ==
  { NewScopedInstrumenter(i).properties :
      i \in { j \in DispatchedInstructions :
                /\ NewScopedInstrumenter(j).some
                /\ NewScopedInstrumenter(j).instruction = k } }

\* The text of a row: "(p1,p2,...,)",1,<elapsed>
RECURSIVE TupleText(_)
TupleText(properties) ==
  IF properties = << >> THEN ""
  ELSE Head(properties) \o "," \o TupleText(Tail(properties))

RowText(properties, duration) ==
  "\"(" \o TupleText(properties) \o ")\",1," \o FormatSeconds(duration)

\* The rows a sample of kind k can produce.
ValidRows(k) == { RowText(p, d) : p \in PropertiesOf(k), d \in Durations }

\* The lines written to a log since the start of the history.
Lines(file) == TailLines(file.tail, "")

\* The number of lines of a log that are the header.
HeaderLines(file) ==
  (IF file.prior >= 1 THEN 1 ELSE 0)
    + Cardinality({ i \in 1 .. Len(Lines(file)) : Lines(file)[i] = HeaderText })

\* A log with the header as line 1 and one complete row per further line.
WellFormed(file, k) ==
  /\ file.exists
  /\ file.tail # << >> => file.tail[Len(file.tail)].nl
  /\ IF file.prior = 0
       THEN /\ Len(Lines(file)) >= 1
            /\ Lines(file)[1] = HeaderText
            /\ \A i \in 2 .. Len(Lines(file)) : Lines(file)[i] \in ValidRows(k)
       ELSE \A i \in 1 .. Len(Lines(file)) : Lines(file)[i] \in ValidRows(k)

\* The samples of a well-formed log, counted by their closing writes.
SamplesIn(file) ==
  (IF file.prior >= 1 THEN file.prior - 1 ELSE 0)
    + Cardinality({ i \in 1 .. Len(file.tail) :
                      file.tail[i].nl /\ file.tail[i].text # HeaderText })

\* Whether one sequence of writes starts with another.
IsPrefix(s, u) == Len(s) <= Len(u) /\ SubSeq(u, 1, Len(s)) = s

\* Nobody is inside the guarded statement.
Quiescent == lockHolder = NoThread

\* The positions inside drop.
DropSteps ==
  { "drop", "entry", "output_dir", "read", "create", "header", "open", "check",
    "write_open", "write_props", "increment", "unlock" }

(***************************************************************************)
(* C1.                                                                     *)
(***************************************************************************)
\* C1, cap enforcement: a write to a sink's log happens only while its
\* entry_count is below TARGET_ENTRY_COUNT; a drop that finds the count at
\* or above the target goes straight to the end of the statement and
\* returns with the logs, the counts, the poison flag and the process
\* unchanged; and a sink's count and rows never exceed the target while no
\* I/O has failed.
C1_AppendOnlyBelowTarget ==
  \A k \in Kinds :
    /\ (files[k].present /\ disk'[k] # disk[k])
         => files[k].entry_count < TARGET_ENTRY_COUNT
    /\ \A t \in Threads :
         ( /\ pc[t] \in {"check", "unlock"} /\ pc'[t] # pc[t]
           /\ scoped[t].instruction = k
           /\ files[k].entry_count >= TARGET_ENTRY_COUNT
           /\ ~(pc[t] = "unlock" /\ accepted[t]) )
         => /\ pc'[t] = (IF pc[t] = "check" THEN "unlock"
                         ELSE IF unwinding[t] THEN "panicked" ELSE "idle")
            /\ disk' = disk /\ files' = files
            /\ poisoned' = poisoned /\ alive' = alive

C1_WithinTarget ==
  \A k \in Kinds :
    (files[k].present /\ ~ioFailed) =>
      /\ files[k].entry_count <= TARGET_ENTRY_COUNT
      /\ DataRows(disk[k]) <= TARGET_ENTRY_COUNT

C1_CapEnforcement == [][C1_AppendOnlyBelowTarget]_vars /\ []C1_WithinTarget

\* A drop that found the sink at the target and wrote nothing.
C1_Witness ==
  \E t \in Threads :
    /\ pc[t] = "unlock" /\ ~accepted[t]
    /\ files[scoped[t].instruction].entry_count = TARGET_ENTRY_COUNT

(***************************************************************************)
(* C2.                                                                     *)
(***************************************************************************)
\* C2, concurrent safety: while no I/O has failed, every finished line of
\* every log is the header or one whole row (the writes of two rows never
\* interleave), and when nobody is inside the guarded statement a kind
\* whose log did not exist when the process started has exactly one row,
\* and an entry_count of one, per drop that returned.
C2_ConcurrentSafety ==
  ~ioFailed =>
    \A k \in Kinds :
      /\ \A i \in 1 .. Len(Lines(disk[k])) :
           (i < Len(Lines(disk[k])) \/ Quiescent)
             => Lines(disk[k])[i] \in ValidRows(k) \cup {HeaderText}
      /\ (~atStart[k].exists /\ files[k].present /\ Quiescent) =>
           /\ DataRows(disk[k]) = completed[k]
           /\ files[k].entry_count = completed[k]

\* Every thread has finished one drop on the same fresh kind.
C2_Witness ==
  \E k \in Kinds :
    /\ ~ioFailed /\ Quiescent /\ ~atStart[k].exists
    /\ callers[k] = Threads /\ completed[k] = NumThreads
    /\ \E p \in PropertiesOf(k) : Len(p) >= 1

(***************************************************************************)
(* C3.                                                                     *)
(***************************************************************************)
\* C3, resume idempotence: while no I/O has failed and nobody is inside
\* the guarded statement, each log on disk, however many restarts lie
\* between its samples, has the same lines as the log one uninterrupted
\* run holds after the same samples.
C3_ResumeIdempotence ==
  (~ioFailed /\ Quiescent) =>
    \A k \in Kinds :
      /\ disk[k].exists = ideal[k].log.exists
      /\ disk[k].prior = ideal[k].log.prior
      /\ Lines(disk[k]) = Lines(ideal[k].log)

\* A log that got a row before the restart and a row after it.
C3_Witness ==
  \E k \in Kinds :
    /\ ~ioFailed /\ Quiescent /\ restarts >= 1
    /\ atStart[k].exists /\ atStart[k].prior = 0
    /\ Len(Lines(atStart[k])) >= 2
    /\ completed[k] >= 1
    /\ Len(Lines(disk[k])) > Len(Lines(atStart[k]))

(***************************************************************************)
(* C4.                                                                     *)
(***************************************************************************)
\* C4, single sink per kind: InstrumentationFile::new runs at most once
\* per kind in a process, and while it runs for a kind the map holds no
\* sink for that kind.
C4_SingleSinkPerKind ==
  \A k \in Kinds :
    /\ constructed[k] <= 1
    /\ \A t \in Threads :
         (pc[t] \in {"output_dir", "read", "create", "header", "open"}
            /\ scoped[t].instruction = k) => ~files[k].present

\* One thread constructs the sink of a kind while another thread's first
\* drop of the same kind waits for the lock.
C4_Witness ==
  \E t, u \in Threads :
    /\ t # u /\ pc[t] = "read" /\ pc[u] = "drop"
    /\ scoped[t].instruction = scoped[u].instruction
    /\ completed[scoped[t].instruction] = 0

(***************************************************************************)
(* C5.                                                                     *)
(***************************************************************************)
\* C5, Full survives restart: within a process a sink whose entry_count
\* has reached the target keeps it there; a sink opened over a log that
\* held the header and TARGET_ENTRY_COUNT rows when the process started has
\* an entry_count of exactly the target; and no log ever has more lines
\* than the header and TARGET_ENTRY_COUNT rows.
C5_FullStaysFull ==
  \A k \in Kinds :
    (files[k].present /\ files[k].entry_count >= TARGET_ENTRY_COUNT
       /\ restarts' = restarts)
      => files'[k] = files[k]

C5_FullRecovered ==
  \A k \in Kinds :
    /\ (files[k].present /\ atStart[k].exists
          /\ LinesCount(atStart[k]) = TARGET_ENTRY_COUNT + 1)
         => files[k].entry_count = TARGET_ENTRY_COUNT
    /\ disk[k].exists => LinesCount(disk[k]) <= TARGET_ENTRY_COUNT + 1

C5_FullSurvivesRestart == [][C5_FullStaysFull]_vars /\ []C5_FullRecovered

\* A log filled before the restart, reopened after it, and a sample
\* dropped by the reopened sink.
C5_Witness ==
  \E t \in Threads :
    LET k == scoped[t].instruction IN
      /\ pc[t] = "unlock" /\ ~accepted[t] /\ restarts >= 1
      /\ Len(atStart[k].tail) >= 1
      /\ LinesCount(atStart[k]) = TARGET_ENTRY_COUNT + 1
      /\ files[k].entry_count = TARGET_ENTRY_COUNT

(***************************************************************************)
(* C6.                                                                     *)
(***************************************************************************)
\* C6, exactly-once finalization: a handle in its scope has not been
\* dropped; a handle whose scope has ended, by return or by unwinding, has
\* had its drop run exactly once, during the drop and after it; and an
\* open that returned None leads to no drop.
C6_ExactlyOnceFinalization ==
  \A t \in Threads :
    /\ pc[t] = "timed" => finalized[t] = 0
    /\ pc[t] \in DropSteps => finalized[t] = 1
    /\ (pc[t] \in {"idle", "panicked"} /\ opened[t] = "handle")
         => finalized[t] = 1
    /\ opened[t] = "nothing" => (finalized[t] = 0 /\ pc[t] = "idle")

\* A handle dropped while its thread unwinds, whose drop has returned.
C6_Witness ==
  \E t \in Threads, k \in Kinds :
    /\ pc[t] = "panicked" /\ unwinding[t] /\ alive
    /\ t \in callers[k] /\ finalized[t] = 1

(***************************************************************************)
(* C7.                                                                     *)
(***************************************************************************)
\* C7, fatal I/O failure: once an I/O operation has failed in a process,
\* no step of that process changes any log and no drop returns.
C7_NothingAfterFailure ==
  (failedRun /\ failedRun') => (disk' = disk /\ completed' = completed)

C7_FatalIoFailure == [][C7_NothingAfterFailure]_vars

\* A write failed in the middle of a row, the process lives on, and every
\* thread has ended in a panic.
C7_Witness ==
  /\ failedRun /\ alive
  /\ \E k \in Kinds : disk[k].tail # << >> /\ ~disk[k].tail[Len(disk[k].tail)].nl
  /\ \A t \in Threads : pc[t] = "panicked" /\ finalized[t] = 1 /\ ~unwinding[t]

(***************************************************************************)
(* C8.                                                                     *)
(***************************************************************************)
\* C8, recovered count: when the first drop of a kind in a process reaches
\* instrument's test, the sink just constructed has entry_count equal to
\* the number of samples in the log, which is its line count less one, if
\* the log existed at the start of the process with one header line and
\* one line per sample; and entry_count 0 over a log holding the header
\* alone if no log existed.
C8_RecoveredCount ==
  \A t \in Threads :
    LET k == scoped[t].instruction IN
      (pc[t] = "check" /\ completed[k] = 0 /\ constructed[k] = 1) =>
        /\ WellFormed(atStart[k], k) =>
             /\ files[k].entry_count = SamplesIn(atStart[k])
             /\ files[k].entry_count = LinesCount(atStart[k]) - 1
        /\ ~atStart[k].exists =>
             /\ files[k].entry_count = 0
             /\ disk[k].exists /\ disk[k].prior = 0
             /\ Lines(disk[k]) = << HeaderText >>

\* A sink constructed over a log that an earlier process of the history
\* created and wrote a row to.
C8_Witness ==
  \E t \in Threads :
    LET k == scoped[t].instruction IN
      /\ pc[t] = "check" /\ completed[k] = 0 /\ constructed[k] = 1
      /\ WellFormed(atStart[k], k) /\ atStart[k].prior = 0
      /\ files[k].entry_count = 1

(***************************************************************************)
(* C9.                                                                     *)
(***************************************************************************)
\* C9, append-only log: in every step, a restart included, a log that
\* exists still exists afterwards and its old content is a prefix of its
\* new content.
C9_ContentKept ==
  \A k \in Kinds :
    disk[k].exists =>
      /\ disk'[k].exists
      /\ disk'[k].prior = disk[k].prior
      /\ IsPrefix(disk[k].tail, disk'[k].tail)

C9_AppendOnlyLog == [][C9_ContentKept]_vars

\* A log reopened after a restart that holds more than it did then.
C9_Witness ==
  \E k \in Kinds :
    /\ restarts >= 1 /\ atStart[k].exists /\ files[k].present
    /\ Len(disk[k].tail) > Len(atStart[k].tail)

(***************************************************************************)
(* C10.                                                                    *)
(***************************************************************************)
\* C10, single header: while no I/O has failed, a log that exists and is
\* not between its creation and the write of its header has exactly one
\* header line, which is line 1; and when nobody is inside the guarded
\* statement, line 2 of a log created in the history is a row.
C10_SingleHeader ==
  ~ioFailed =>
    \A k \in Kinds :
      (disk[k].exists
         /\ ~\E t \in Threads : pc[t] = "header" /\ scoped[t].instruction = k) =>
        /\ HeaderLines(disk[k]) = 1
        /\ disk[k].prior = 0 => Lines(disk[k])[1] = HeaderText
        /\ (disk[k].prior = 0 /\ Quiescent /\ Len(Lines(disk[k])) >= 2)
             => Lines(disk[k])[2] \in ValidRows(k)

\* A log created in the history that got rows on both sides of a restart.
C10_Witness ==
  \E k \in Kinds :
    /\ ~ioFailed /\ Quiescent /\ restarts >= 1
    /\ disk[k].exists /\ disk[k].prior = 0
    /\ Len(Lines(disk[k])) >= 3 /\ completed[k] >= 1

(***************************************************************************)
(* C11.                                                                    *)
(***************************************************************************)
\* C11, registry growth: a kind has a sink only after
\* InstrumentationFile::new has run for it in this process; within a
\* process no step removes a sink; a sink is inserted only by the step of
\* a drop that ends the construction for its own kind, while no drop of
\* that kind has returned yet and the map holds no sink for it; and an
\* open changes no sink.
C11_RegistryStep ==
  \A k \in Kinds :
    /\ (files[k].present /\ restarts' = restarts) => files'[k].present
    /\ (~files[k].present /\ files'[k].present) =>
         \E t \in Threads :
           /\ pc[t] \in {"header", "open"} /\ pc'[t] = "check"
           /\ scoped[t].instruction = k
           /\ finalized[t] = 1 /\ completed[k] = 0
    /\ (\E t \in Threads : /\ pc[t] \in {"header", "open"} /\ pc'[t] = "check"
                           /\ scoped[t].instruction = k)
         => ~files[k].present
    /\ ops' # ops => files' = files

C11_EmptyAtStart ==
  \A k \in Kinds : constructed[k] = 0 => ~files[k].present

C11_RegistryGrowth == [][C11_RegistryStep]_vars /\ []C11_EmptyAtStart

\* Two kinds registered, one of them at its target with a sample dropped.
C11_Witness ==
  \E k, j \in Kinds, t \in Threads :
    /\ k # j /\ files[k].present /\ files[j].present
    /\ pc[t] = "unlock" /\ ~accepted[t] /\ scoped[t].instruction = j

(***************************************************************************)
(* C12.                                                                    *)
(***************************************************************************)
\* The tags the exclusion rule names, by category.
FloatMemoryTags ==
  { "Instruction::F32Load", "Instruction::F64Load", "Instruction::F32Store",
    "Instruction::F64Store" }

FloatConstTags ==
  { "Instruction::F32Const", "Instruction::F64Const" }

FloatCompareTags ==
  { "Instruction::F32Eq", "Instruction::F32Ne", "Instruction::F32Lt",
    "Instruction::F32Gt", "Instruction::F32Le", "Instruction::F32Ge",
    "Instruction::F64Eq", "Instruction::F64Ne", "Instruction::F64Lt",
    "Instruction::F64Gt", "Instruction::F64Le", "Instruction::F64Ge" }

FloatArithmeticTags ==
  { "Instruction::F32Abs", "Instruction::F32Neg", "Instruction::F32Ceil",
    "Instruction::F32Floor", "Instruction::F32Trunc",
    "Instruction::F32Nearest", "Instruction::F32Sqrt",
    "Instruction::F32Add", "Instruction::F32Sub", "Instruction::F32Mul",
    "Instruction::F32Div", "Instruction::F32Min", "Instruction::F32Max",
    "Instruction::F32Copysign", "Instruction::F64Abs",
    "Instruction::F64Neg", "Instruction::F64Ceil", "Instruction::F64Floor",
    "Instruction::F64Trunc", "Instruction::F64Nearest",
    "Instruction::F64Sqrt", "Instruction::F64Add", "Instruction::F64Sub",
    "Instruction::F64Mul", "Instruction::F64Div", "Instruction::F64Min",
    "Instruction::F64Max", "Instruction::F64Copysign" }

FloatIntegerConversionTags ==
  { "Instruction::I32TruncSF32", "Instruction::I32TruncUF32",
    "Instruction::I32TruncSF64", "Instruction::I32TruncUF64",
    "Instruction::I64TruncSF32", "Instruction::I64TruncUF32",
    "Instruction::I64TruncSF64", "Instruction::I64TruncUF64",
    "Instruction::F32ConvertSI32", "Instruction::F32ConvertUI32",
    "Instruction::F32ConvertSI64", "Instruction::F32ConvertUI64",
    "Instruction::F64ConvertSI32", "Instruction::F64ConvertUI32",
    "Instruction::F64ConvertSI64", "Instruction::F64ConvertUI64" }

PromoteDemoteTags ==
  { "Instruction::F32DemoteF64", "Instruction::F64PromoteF32" }

ReinterpretTags ==
  { "Instruction::I32ReinterpretF32", "Instruction::I64ReinterpretF64",
    "Instruction::F32ReinterpretI32", "Instruction::F64ReinterpretI64" }

FloatingPointTags ==
  FloatMemoryTags \cup FloatConstTags \cup FloatCompareTags
    \cup FloatArithmeticTags \cup FloatIntegerConversionTags
    \cup PromoteDemoteTags \cup ReinterpretTags

\* C12, exclusion: ScopedInstrumenter::new returns None for every value of
\* every floating-point load, store, const, compare, arithmetic,
\* float-integer conversion, promote, demote and reinterpret tag, and a
\* handle for every value of every other tag.
C12_Exclusion ==
  \A t \in Threads :
    instr[t] # NoInstruction =>
      /\ instr[t].tag \in FloatingPointTags
           => (opened[t] = "nothing" /\ ~scoped[t].some /\ pc[t] = "idle")
      /\ instr[t].tag \notin FloatingPointTags
           => (opened[t] = "handle" /\ scoped[t].some /\ pc[t] = "timed")

\* An excluded tag with a value other than the first, given no handle.
C12_Witness ==
  \E t \in Threads :
    /\ instr[t].tag = "Instruction::F64Const" /\ instr[t].operand = 1
    /\ opened[t] = "nothing"

(***************************************************************************)
(* C13.                                                                    *)
(***************************************************************************)
\* C13, kind derivation: the kind string of a handle is the kind string
\* of every value of the same tag, and of no value of any other
\* instrumented tag.
C13_KindDerivation ==
  \A t \in Threads :
    opened[t] = "handle" =>
      \A j \in AllInstructions :
        NewScopedInstrumenter(j).some =>
          ( NewScopedInstrumenter(j).instruction = scoped[t].instruction
              <=> j.tag = instr[t].tag )

\* A branch with a kept value and a second target, of kind "Br".
C13_Witness ==
  \E t \in Threads :
    /\ instr[t] = [tag |-> "Instruction::Br", keep |-> "Single", operand |-> 1]
    /\ opened[t] = "handle" /\ scoped[t].instruction = "Br"

(***************************************************************************)
(* C14.                                                                    *)
(***************************************************************************)
\* C14, property extraction: the properties of a handle are the one
\* element that is the keep count of the instruction, as a string, for Br,
\* BrIfEqz, BrIfNez and Return, and empty for every other tag.
C14_PropertyExtraction ==
  \A t \in Threads :
    opened[t] = "handle" =>
      IF instr[t].tag \in { "Instruction::Br", "Instruction::BrIfEqz",
                            "Instruction::BrIfNez", "Instruction::Return" }
        THEN scoped[t].properties =
               << IF instr[t].keep = "Single" THEN "1" ELSE "0" >>
        ELSE scoped[t].properties = << >>

\* A return that keeps one value, with the property "1".
C14_Witness ==
  \E t \in Threads :
    /\ instr[t].tag = "Instruction::Return" /\ instr[t].keep = "Single"
    /\ opened[t] = "handle" /\ scoped[t].properties = << "1" >>

(***************************************************************************)
(* C15.                                                                    *)
(***************************************************************************)
\* The elapsed seconds in scientific notation with 6 fractional digits,
\* for the durations instrument is called with.
ExpectedSeconds(ns) ==
  CASE ns = 0       -> "0.000000e0"
    [] ns = 7       -> "7.000000e-9"
    [] ns = 1500    -> "1.500000e-6"
    [] ns = 123400  -> "1.234000e-4"
    [] ns = 9999999 -> "9.999999e-3"

\* The row "(p1,p2,...,)",1,<elapsed>.
ExpectedRow(properties, ns) ==
  "\"(" \o TupleText(properties) \o ")\",1," \o ExpectedSeconds(ns)

\* C15, row format: once an accepted call of instrument has written its
\* row, the log is the log before the call followed by exactly one line,
\* "(p1,p2,...,)",1,<elapsed>; properties ["2"] and 0.0001234 s give
\* "(2,)",1,1.234000e-4; a call that is not accepted adds nothing.
C15_RowFormat ==
  \A t \in Threads :
    LET k == scoped[t].instruction IN
      /\ (pc[t] \in {"increment", "unlock"} /\ accepted[t]) =>
           /\ Lines(disk[k]) =
                Lines(atStart[k]) \o << ExpectedRow(scoped[t].properties, elapsed[t]) >>
           /\ (scoped[t].properties = << "2" >> /\ elapsed[t] = 123400) =>
                Lines(disk[k])[Len(Lines(disk[k]))] = "\"(2,)\",1,1.234000e-4"
           /\ scoped[t].properties = << >> =>
                Lines(disk[k])[Len(Lines(disk[k]))] =
                  "\"()\",1," \o ExpectedSeconds(elapsed[t])
      /\ (pc[t] = "unlock" /\ ~accepted[t]) => disk[k] = atStart[k]

\* The row of properties ["2"] and 0.0001234 s, written after the header.
C15_Witness ==
  \E t \in Threads :
    /\ pc[t] = "increment" /\ accepted[t]
    /\ scoped[t].properties = << "2" >> /\ elapsed[t] = 123400
    /\ Lines(disk[scoped[t].instruction]) =
         << HeaderText, "\"(2,)\",1,1.234000e-4" >>

(***************************************************************************)
(* C16.                                                                    *)
(***************************************************************************)
\* The positions inside the guarded statement of drop.
GuardedSteps == DropSteps \ {"drop"}

\* C16, counter/row synchronisation: while no I/O has failed, at most one
\* thread is inside the guarded statement, and when none is, every sink's
\* entry_count is the number of lines after the header in its log.
C16_CounterRowSync ==
  ~ioFailed =>
    /\ Cardinality({ t \in Threads : pc[t] \in GuardedSteps }) <= 1
    /\ Quiescent =>
         \A k \in Kinds :
           files[k].present => files[k].entry_count = DataRows(disk[k])

\* Both threads have dropped a handle of one kind; one row was written,
\* which took the sink to its target.
C16_Witness ==
  \E k \in Kinds :
    /\ ~ioFailed /\ Quiescent /\ files[k].present
    /\ callers[k] = Threads /\ completed[k] >= 2
    /\ files[k].entry_count = TARGET_ENTRY_COUNT
    /\ Len(disk[k].tail) >= 2

(***************************************************************************)
(* C18.                                                                    *)
(***************************************************************************)
\* C18, recovery without underflow: when the first drop of a kind reaches
\* instrument's test over a log that existed when the process started,
\* the recovered entry_count is at most the number of lines of that log;
\* and in a process in which no I/O has failed no construction panics, so
\* the Mutex is not poisoned and the process is not aborted.
C18_RecoveryWithoutUnderflow ==
  /\ \A t \in Threads :
       LET k == scoped[t].instruction IN
         ( /\ pc[t] = "check" /\ completed[k] = 0 /\ constructed[k] = 1
           /\ atStart[k].exists )
         => files[k].entry_count <= LinesCount(atStart[k])
  /\ ~failedRun => (~poisoned /\ alive)

(***************************************************************************)
(* C19.                                                                    *)
(***************************************************************************)
\* C19, per-kind isolation: within a process, a step changes the sink or
\* the log of a kind only if it is a step of the drop of a handle of that
\* kind; and a drop whose own sink is below the target passes instrument's
\* test whatever the counts of the other sinks.
C19_OwnKindOnly ==
  /\ \A j \in Kinds :
       ((files'[j] # files[j] \/ disk'[j] # disk[j]) /\ restarts' = restarts) =>
         \E t \in Threads :
           /\ pc[t] \in GuardedSteps /\ scoped[t].instruction = j
           /\ (pc'[t] # pc[t] \/ written'[t] # written[t])
  /\ \A t \in Threads :
       ( /\ pc[t] = "check" /\ pc'[t] # pc[t] /\ pc'[t] # "idle"
         /\ files[scoped[t].instruction].entry_count < TARGET_ENTRY_COUNT )
       => (pc'[t] = "write_open" /\ accepted'[t])

C19_PerKindIsolation == [][C19_OwnKindOnly]_vars

\* A kind is at its target and has dropped a sample; a row of another kind
\* has been written since, in the same process.
C19_Witness ==
  \E k, j \in Kinds, t \in Threads :
    /\ k # j /\ ~ioFailed
    /\ files[k].present /\ files[k].entry_count = TARGET_ENTRY_COUNT
    /\ completed[k] >= 1 /\ Lines(disk[k]) = Lines(atStart[k])
    /\ pc[t] = "increment" /\ scoped[t].instruction = j

(***************************************************************************)
(* C20.                                                                    *)
(***************************************************************************)
\* C20, no trace of excluded kinds: no kind of a tag in the deny list ever
\* has a sink or a log file, and the dispatch of an instruction that gets
\* no handle leaves the map, the files and every thread's position
\* unchanged.
C20_NoSinkNoLog ==
  \A i \in DispatchedInstructions :
    i.tag \in DenyList =>
      /\ ~files[InstructionStr[i.tag]].present
      /\ ~disk[InstructionStr[i.tag]].exists

C20_ExcludedStep ==
  \A t \in Threads :
    (ops' # ops /\ instr'[t] # instr[t] /\ instr'[t].tag \in DenyList) =>
      (files' = files /\ disk' = disk /\ dirExists' = dirExists /\ pc' = pc)

C20_NoTraceOfExcludedKinds == []C20_NoSinkNoLog /\ [][C20_ExcludedStep]_vars

\* An excluded instruction was dispatched in a process that has also
\* dropped a handle of an instrumented kind.
C20_Witness ==
  \E t \in Threads, k \in Kinds :
    /\ instr[t].tag \in DenyList /\ opened[t] = "nothing" /\ pc[t] = "idle"
    /\ completed[k] >= 1 /\ disk[k].exists

(***************************************************************************)
(* C17  Progress and synchronous write: while no I/O operation fails,      *)
(* under fair scheduling every finalization that has started acquires the  *)
(* registry lock and then completes (its thread leaves drop), and when a   *)
(* finalization whose sample was accepted returns, the sample's complete   *)
(* row is already the last line of its kind's log.                         *)
(***************************************************************************)
\* The finalization of thread t has returned.
C17_Returned(t) == pc[t] \in {"idle", "panicked"}

\* The step by which an accepted finalization returns finds its row
\* complete in the log.
C17_RowWrittenAtReturn ==
  \A t \in Threads :
    ( pc[t] = "unlock" /\ pc'[t] # "unlock" /\ accepted[t] )
    => LET file == disk[scoped[t].instruction]
           lines == Lines(file)
       IN  /\ file.tail # << >>
           /\ file.tail[Len(file.tail)].nl
           /\ Len(lines) >= 1
           /\ lines[Len(lines)] = RowText(scoped[t].properties, elapsed[t])
           /\ disk' = disk

C17_ProgressAndSynchronousWrite ==
  /\ \A t \in Threads : (pc[t] = "drop") ~> (lockHolder = t)
  /\ \A t \in Threads : (pc[t] \in DropSteps) ~> C17_Returned(t)
  /\ [][C17_RowWrittenAtReturn]_vars

\* One thread is about to return from an accepted finalization, its row
\* written, while another waits for the lock.
C17_Witness ==
  \E t \in Threads, u \in Threads :
    /\ t # u
    /\ pc[t] = "unlock" /\ accepted[t] /\ lockHolder = t
    /\ pc[u] = "drop"
    /\ LET lines == Lines(disk[scoped[t].instruction]) IN
         /\ Len(lines) >= 1
         /\ lines[Len(lines)] = RowText(scoped[t].properties, elapsed[t])

====
